---------------------------- MODULE Spec2Model ----------------------------
(***************************************************************************)
(* Model of the MQTT broker's command handlers (handlers.c): the ten       *)
(* handlers, the publish fan-out and the session / topic / inflight state  *)
(* they mutate.  Strings are sequences of one-character strings so that    *)
(* the topic normalisation is computed, not assumed.                       *)
(***************************************************************************)
EXTENDS Integers, Sequences, FiniteSets, TLC

(***************************************************************************)
(* Bounds of the model.                                                    *)
(***************************************************************************)
\* packet ids are 1..MaxMid (the source's tables have 65536 slots)
MaxMid == 2
\* blocks of the packet pool
PoolSize == 3
\* staged packets a write buffer may hold before the reactor flushes it
MaxWbuf == 4
\* entries of a client's subscriptions list
MaxSubs == 3
\* entries of a client's offline queue
MaxQueue == 2
\* staged packets that may be waiting when the reactor dispatches a packet
MaxPending == 1
\* packets dispatched to the handlers in one run of each specification
MaxPackets == 4
MaxPacketsFanout == 4
MaxPacketsSession == 6
MaxPacketsQueue == 7
MaxPacketsReplay == 4
MaxPacketsRetain == 4
MaxPacketsDispatch == 4
MaxPacketsAuth == 3
MaxPacketsStore == 3
MaxPacketsTopics == 4
MaxPacketsWill == 4
MaxPacketsTuples == 4

(***************************************************************************)
(* Program constants.                                                      *)
(***************************************************************************)
AT_MOST_ONCE == 0
AT_LEAST_ONCE == 1
EXACTLY_ONCE == 2
MQTT_CONNECTION_ACCEPTED == 0
MQTT_BAD_USERNAME_OR_PASSWORD == 4
MQTT_NOT_AUTHORIZED == 5

Clients == {"c1", "c2"}
Mids == 1..MaxMid
Blocks == 1..PoolSize
NULL == 0
NUL == "NUL"
Payloads == {"m1", "m2"}

Min(a, b) == IF a <= b THEN a ELSE b

\* the permutations of a finite set, as sequences
RECURSIVE Perms(_)
Perms(S) ==
    IF S = {} THEN {<< >>}
    ELSE UNION {{<<x>> \o p : p \in Perms(S \ {x})} : x \in S}

\* s1 is a prefix of s2
IsPrefix(s1, s2) ==
    /\ Len(s1) <= Len(s2)
    /\ SubSeq(s2, 1, Len(s1)) = s1

\* a C string: the bytes of a buffer before its first NUL
RECURSIVE CStr(_)
CStr(buf) ==
    IF buf = << >> \/ Head(buf) = NUL THEN << >>
    ELSE <<Head(buf)>> \o CStr(Tail(buf))

(***************************************************************************)
(* Packets.  One record shape for every staged packet; a field a packet    *)
(* type does not carry is 0 / empty.                                       *)
(***************************************************************************)
Packet(type, qos, retain, pkt_id, topic, payload, rcs) ==
    [type |-> type, qos |-> qos, retain |-> retain, pkt_id |-> pkt_id,
     topic |-> topic, payload |-> payload, rcs |-> rcs]

NoPacket == Packet("NONE", 0, 0, 0, << >>, "", << >>)

\* mqtt_pack of a PUBLISH: the packet id is encoded only when QoS > 0
mqtt_pack(pkt) ==
    IF pkt.type = "PUBLISH" /\ pkt.qos = AT_MOST_ONCE
    THEN [pkt EXCEPT !.pkt_id = 0]
    ELSE pkt

\* mqtt_pack_mono: a two-byte-header ack carrying a packet id
mqtt_pack_mono(type, pkt_id) == Packet(type, 0, 0, pkt_id, << >>, "", << >>)

\* the CONNACK staged by set_payload_connack (session_present is always 0)
set_payload_connack(rc) == Packet("CONNACK", 0, 0, 0, << >>, "", <<rc>>)


(***************************************************************************)
(* State.                                                                  *)
(*   clients   the client structures (one per transport slot)              *)
(*   topics    sol.topics: topic name -> subscribers map and retained msg  *)
(*   subrecs   the heap of struct subscriber records                       *)
(*   pool      sol.pool: the blocks of the packet pool                     *)
(*   allow_anonymous  conf->allow_anonymous                                *)
(*   last      the packet handled last and the handler's return code       *)
(*   outstanding, fanned   history of what was staged / queued             *)
(*   handled   the number of packets dispatched so far                     *)
(*   generated the latest reading of the clock generate_random_id has      *)
(*             printed, as an index of RandomIds (0 before the first call) *)
(*   teardown  per client, the handler outcome on which the reactor has    *)
(*             yet to close the transport ("NONE" when there is none)      *)
(***************************************************************************)
VARIABLES clients, topics, subrecs, pool, allow_anonymous, last,
          outstanding, fanned, handled, teardown, generated

vars == <<clients, topics, subrecs, pool, allow_anonymous, last,
          outstanding, fanned, handled, teardown, generated>>

\* the broker's own state: everything but the history variables
broker == <<clients, topics, subrecs, pool, allow_anonymous>>

\* struct inflight_msg of i_msgs: in_use and the pooled packet it points to
NoMsg == [in_use |-> FALSE, packet |-> NULL]
\* where the packet pointer of an i_acks / in_i_acks slot points: nowhere,
\* or into the stack frame of the handler that registered the slot, a frame
\* that is gone once the handler has returned
NoStub == "NULL"
DeadFrame == "DEAD_FRAME"
\* struct inflight_msg of i_acks / in_i_acks: in_use and the packet pointer
NoAck == [in_use |-> FALSE, packet |-> NoStub]

\* inflight_msg_init: fills the slot and marks it in use
inflight_msg_init(p) == [in_use |-> TRUE, packet |-> p]
\* inflight_msg_init with the address of a handler's local stub ack
inflight_ack_init == [in_use |-> TRUE, packet |-> DeadFrame]

\* the 4-bit header types, by name
HeaderTypes ==
    {"RESERVED0", "CONNECT", "CONNACK", "PUBLISH", "PUBACK", "PUBREC", "PUBREL",
     "PUBCOMP", "SUBSCRIBE", "SUBACK", "UNSUBSCRIBE", "UNSUBACK", "PINGREQ",
     "PINGRESP", "DISCONNECT", "RESERVED15"}
\* what a read of packet->header.bits.type can give for the packet pointer
\* of an ack slot: the frame it points into is reused by every later call
StubHeaderType(packet) == IF packet = DeadFrame THEN HeaderTypes ELSE {}

\* a client structure as the reactor hands it out before any CONNECT
client_init ==
    [online |-> FALSE, client_id |-> "", clean_session |-> FALSE,
     subscriptions |-> << >>, outgoing_msgs |-> << >>,
     i_msgs |-> [k \in Mids |-> NoMsg],
     i_acks |-> [k \in Mids |-> NoAck],
     in_i_acks |-> [k \in Mids |-> NoAck],
     has_inflight |-> FALSE,
     has_lwt |-> FALSE, lwt_msg |-> NoPacket,
     wbuf |-> << >>, next_mid |-> 1]

\* list_push: the lists are ordered queues, a push appends
list_push(l, v) == Append(l, v)

\* a pool block: free or used, the packet stored in it, and how many times
\* it was released since it was allocated (0, 1, 2 = more than once)
pool_init == [b \in Blocks |-> [used |-> FALSE, pkt |-> NoPacket, frees |-> 0]]

\* memorypool_alloc: the lowest free block, NULL when the pool is exhausted
memorypool_alloc(pl) ==
    IF \E b \in Blocks : ~pl[b].used
    THEN CHOOSE b \in Blocks : ~pl[b].used /\ \A o \in Blocks : ~pl[o].used => b <= o
    ELSE NULL

\* memorypool_free: returns block p to the pool; the pool does not check
\* whether p is NULL or already free
memorypool_free(pl, p) ==
    IF p = NULL THEN pl
    ELSE [pl EXCEPT ![p].used = FALSE, ![p].frees = Min(@ + 1, 2)]

\* next_free_mid: a wrap-around counter that skips the ids in use in i_msgs
\* or i_acks; with every id in use it returns the counter's id unchecked
MidFree(cl, k) == ~cl.i_msgs[k].in_use /\ ~cl.i_acks[k].in_use
MidAfter(k, n) == ((k - 1 + n) % MaxMid) + 1
next_free_mid(cl) ==
    IF \E n \in 0..(MaxMid - 1) : MidFree(cl, MidAfter(cl.next_mid, n))
    THEN MidAfter(cl.next_mid,
                  CHOOSE n \in 0..(MaxMid - 1) :
                      /\ MidFree(cl, MidAfter(cl.next_mid, n))
                      /\ \A m \in 0..(n - 1) : ~MidFree(cl, MidAfter(cl.next_mid, m)))
    ELSE cl.next_mid

(***************************************************************************)
(* Topics.                                                                 *)
(***************************************************************************)
\* topic_new: no subscribers, no retained message
topic_new == [subscribers |-> << >>, retained_msg |-> NoPacket]

sol_topic_exists(tp, name) == name \in DOMAIN tp

\* sol_topic_get_or_create: the topics after the lookup
sol_topic_get_or_create(tp, name) ==
    IF sol_topic_exists(tp, name) THEN tp ELSE (name :> topic_new) @@ tp

\* hashtable_put / hashtable_del on a subscribers map keyed by client id
hashtable_put(m, key, v) == (key :> v) @@ m
hashtable_del(m, key) == [k \in (DOMAIN m) \ {key} |-> m[k]]

\* the characters of topic names, in ASCII order
Chars == <<"#", "/", "?", "a", "b", "c", "x", "y">>
CharOrd(ch) == CHOOSE i \in 1..Len(Chars) : Chars[i] = ch

\* strcmp-like order on names: s1 sorts before s2
RECURSIVE NameLess(_, _)
NameLess(s1, s2) ==
    IF s2 = << >> THEN FALSE
    ELSE IF s1 = << >> THEN TRUE
    ELSE IF Head(s1) = Head(s2) THEN NameLess(Tail(s1), Tail(s2))
    ELSE CharOrd(Head(s1)) < CharOrd(Head(s2))

\* the names of a set in trie order (a node before its children, children
\* in character order)
RECURSIVE TrieOrder(_)
TrieOrder(S) ==
    IF S = {} THEN << >>
    ELSE LET m == CHOOSE x \in S : \A y \in S \ {x} : NameLess(x, y)
         IN <<m>> \o TrieOrder(S \ {m})

\* trie_prefix_map: the topics the callback is invoked on, in order
trie_prefix_map(tp, prefix) ==
    TrieOrder({n \in DOMAIN tp : IsPrefix(prefix, n)})


(***************************************************************************)
(* Topic normalisation, as each handler computes it.                       *)
(***************************************************************************)
\* publish_handler: strncpy copies the topiclen bytes of the topic without a
\* terminator into an uninitialised buffer, and the test reads the byte
\* after them.  junk is what that memory holds up to its first NUL.
PublishTopic(raw, junk) ==
    LET buf == raw \o junk \o <<NUL>>
        len == Len(raw)
    IN IF buf[len + 1] # "/"
       THEN CStr(SubSeq(buf, 1, len) \o <<"/", NUL>>)
       ELSE CStr(buf)

\* subscribe_handler: "p/#" becomes the wildcard over "p/", a filter without
\* a trailing '/' gets one
SubscribeIsWildcard(raw) ==
    LET len == Len(raw)
    IN len >= 2 /\ raw[len] = "#" /\ raw[len - 1] = "/"

SubscribeTopic(raw) ==
    LET len == Len(raw)
    IN IF SubscribeIsWildcard(raw) THEN SubSeq(raw, 1, len - 1)
       ELSE IF raw[len] # "/" THEN raw \o <<"/">>
       ELSE raw

(***************************************************************************)
(* publish_message: the fan-out of the pooled packet in block b to the     *)
(* subscribers of topic t, visited in the order of the map's iterator.     *)
(* The state threaded through the loop: the clients, the pooled packet     *)
(* (one object, rewritten for each subscriber) and the history.            *)
(***************************************************************************)
\* the QoS written into the packet header for one subscriber; qos is the
\* QoS the packet had when publish_message was entered, hdrqos the QoS the
\* header holds now.  (EffectiveQosOfHeader: the minimum taken against the
\* header as the previous subscriber left it.)
EffectiveQosOfHeader(qos, hdrqos, subqos) ==
    IF hdrqos >= subqos THEN subqos ELSE hdrqos

EffectiveQos(qos, hdrqos, subqos) == IF qos >= subqos THEN subqos ELSE qos

\* history: one more QoS>0 PUBLISH with id k staged toward a client
Staged(out, pkt) ==
    IF pkt.type = "PUBLISH" /\ pkt.qos > AT_MOST_ONCE /\ pkt.pkt_id \in Mids
    THEN [out EXCEPT ![pkt.pkt_id] = Min(@ + 1, 2)]
    ELSE out

\* the online branch for a subscriber with effective QoS > 0: packet id and
\* inflight registration
TrackInflight(cl, b) ==
    LET mid == next_free_mid(cl)
    IN [cl EXCEPT
          !.next_mid = MidAfter(mid, 1),
          !.i_msgs[mid] = IF ~cl.i_msgs[mid].in_use
                          THEN inflight_msg_init(b) ELSE @,
          !.i_acks[mid] = IF ~cl.i_acks[mid].in_use
                          THEN inflight_ack_init ELSE @,
          !.has_inflight = TRUE]

FanOutOne(st, sub, qos, b) ==
    LET sc  == sub.client
        cl  == st.cl[sc]
        eq  == EffectiveQos(qos, st.pkt.qos, sub.qos)
        p0  == [st.pkt EXCEPT !.qos = eq, !.pkt_id = 0]
    IN IF ~cl.online
       THEN IF ~cl.clean_session
            THEN [st EXCEPT
                    !.pkt = p0,
                    !.cl[sc].outgoing_msgs = list_push(@, b),
                    !.fan[sc] = Append(@, [topic |-> p0.topic,
                                           payload |-> p0.payload])]
            ELSE [st EXCEPT !.pkt = p0]
       ELSE IF eq > AT_MOST_ONCE
            THEN LET mid == next_free_mid(cl)
                     p1  == [p0 EXCEPT !.pkt_id = mid]
                 IN [st EXCEPT
                       !.pkt = p1,
                       !.cl[sc] = [TrackInflight(cl, b) EXCEPT
                                     !.wbuf = Append(@, mqtt_pack(p1))],
                       !.out[sc] = Staged(@, mqtt_pack(p1))]
            ELSE [st EXCEPT
                    !.pkt = p0,
                    !.cl[sc].wbuf = Append(@, mqtt_pack(p0))]

RECURSIVE FanOut(_, _, _, _, _)
FanOut(order, st, subs, qos, b) ==
    IF order = << >> THEN st
    ELSE FanOut(Tail(order), FanOutOne(st, subs[Head(order)], qos, b),
                subs, qos, b)

\* publish_message(pkt, t, ctx): order is the iteration order of t's
\* subscribers map (client ids); sr is the subscriber heap
publish_message(st, t, order, sr, b) ==
    IF DOMAIN t.subscribers = {} THEN st
    ELSE FanOut(order, st, [k \in DOMAIN t.subscribers |-> sr[t.subscribers[k]]],
                st.pkt.qos, b)


(***************************************************************************)
(* The history record of the packet handled last.                          *)
(***************************************************************************)
\* a CONNECT without a Will, and one without username and password
NoWill == [present |-> FALSE, topic |-> << >>, msg |-> "", qos |-> 0, retain |-> 0]
AuthNone == [username |-> FALSE, password |-> FALSE, salt_found |-> FALSE, passwd_ok |-> FALSE]

\* topic is the name the handler resolved, raw the topic as the packet
\* carried it
MkLast(op, c, rc, pkt_id, topic, qos, tuples, clean) ==
    [op |-> op, c |-> c, rc |-> rc, pkt_id |-> pkt_id, topic |-> topic,
     qos |-> qos, tuples |-> tuples, clean |-> clean, id |-> "", payload |-> "",
     raw |-> << >>, retain |-> 0, will |-> NoWill, auth |-> AuthNone,
     type |-> 0, cause |-> "NONE"]

NoLast == MkLast("NONE", "c1", "NOREPLY", 0, << >>, 0, << >>, FALSE)

(***************************************************************************)
(* The subscriber heap.                                                    *)
(***************************************************************************)
\* xmalloc of a struct subscriber: an address not in use
NewSid(sr) == CHOOSE n \in 1..(Cardinality(DOMAIN sr) + 1) : n \notin DOMAIN sr

\* the records some topic's map still points to
LiveSids(tp) == {tp[n].subscribers[k] : <<n, k>> \in
                    UNION {{<<n, k>> : k \in DOMAIN tp[n].subscribers} : n \in DOMAIN tp}}

\* records no map points to are unreachable
Reachable(sr, tp) == [i \in (DOMAIN sr) \cap LiveSids(tp) |-> sr[i]]

\* topic_add_subscriber: a fresh subscriber record installed on one topic
topic_add_subscriber(st, name, c, key, qos) ==
    LET sid == NewSid(st.sr)
    IN [st EXCEPT
          !.sr = (sid :> [client |-> c, qos |-> qos, refs |-> 1]) @@ st.sr,
          !.tp[name].subscribers = hashtable_put(@, key, sid)]

\* topic_del_subscriber: the client's entry is removed from the topic's map
topic_del_subscriber(st, name, key) ==
    IF key \notin DOMAIN st.tp[name].subscribers THEN st
    ELSE LET sid == st.tp[name].subscribers[key]
         IN [st EXCEPT
               !.tp[name].subscribers = hashtable_del(@, key),
               !.sr[sid].refs = @ - 1]

(***************************************************************************)
(* connect_handler                                                         *)
(***************************************************************************)
\* a gate that is content with the two flags
AuthPassesOnFlags(anon, auth) ==
    \/ anon
    \/ auth.username /\ auth.password

\* the authentication gate: flags of the CONNECT, the lookup of the salt
\* and the outcome of check_passwd
AuthPasses(anon, auth) ==
    \/ anon
    \/ /\ auth.username /\ auth.password
       /\ auth.salt_found
       /\ auth.passwd_ok

\* the ids generate_random_id can print, in the order of the clock
RandomIds == <<"sol-1", "sol-2", "sol-3", "sol-4", "sol-5">>

\* unix_time_ns: the clock in microseconds, as an index of RandomIds.  n is
\* the latest reading (0 when the clock was not read yet): the clock never
\* runs backwards, and a call in the same microsecond reads n again
unix_time_ns(n) == {t \in {n, n + 1} : t >= 1}

\* generate_random_id: "sol-" followed by the reading t of the clock; two
\* calls within one microsecond print the same id
generate_random_id(t) == RandomIds[t]

\* the order of client ids under strncmp; the generated ids follow the
\* clock
IdOrd(id) ==
    CASE id = "" -> 0
      [] id = "A" -> 1
      [] id = "B" -> 2
      [] OTHER -> 2 + (CHOOSE k \in 1..Len(RandomIds) : RandomIds[k] = id)

\* the values strncmp(a, b, n) may return: 0 when equal, any negative or
\* any positive value otherwise (1 stands for itself, 2 for the others)
strncmp(a, b) ==
    IF a = b THEN {0}
    ELSE IF IdOrd(a) < IdOrd(b) THEN {-1}
    ELSE {1, 2}

\* the flush of the offline queue: every queued packet is packed into wbuf
RECURSIVE FlushQueue(_, _)
FlushQueue(q, pl) ==
    IF q = << >> THEN << >>
    ELSE <<mqtt_pack(pl[Head(q)].pkt)>> \o FlushQueue(Tail(q), pl)

RECURSIVE StagedAll(_, _)
StagedAll(out, pkts) ==
    IF pkts = << >> THEN out
    ELSE StagedAll(Staged(out, Head(pkts)), Tail(pkts))

\* the double-CONNECT test of the handler
DoubleConnect(cl, id, r) == cl.online = TRUE /\ r = 1

\* the Will of a CONNECT stored on the client
lwt_packet(will) == Packet("PUBLISH", will.qos, 0, 0, will.topic, will.msg, << >>)

\* connect_handler on client record cl.  id, clean, will, auth are the
\* fields of the CONNECT; rid is the id generate_random_id produces and r
\* the value strncmp returns.  Result: the client, the topics, the return
\* code and the packets staged.
connect_handler(cl, tp, pl, anon, id, clean, will, auth, rid, r) ==
    IF ~AuthPasses(anon, auth)
    THEN [cl |-> [cl EXCEPT !.wbuf = Append(@, set_payload_connack(MQTT_BAD_USERNAME_OR_PASSWORD))],
          tp |-> tp, rc |-> "BAD_USERNAME_OR_PASSWORD", staged |-> << >>]
    ELSE IF id = "" /\ clean = FALSE
    THEN [cl |-> [cl EXCEPT !.wbuf = Append(@, set_payload_connack(MQTT_NOT_AUTHORIZED))],
          tp |-> tp, rc |-> "NOT_AUTHORIZED", staged |-> << >>]
    ELSE
    LET cid    == IF id = "" THEN rid ELSE id
        flush  == IF id # "" /\ clean = FALSE /\ Len(cl.outgoing_msgs) > 0
                  THEN FlushQueue(cl.outgoing_msgs, pl) ELSE << >>
        cl1    == [cl EXCEPT !.wbuf = @ \o flush]
    IN IF DoubleConnect(cl, cid, r)
       THEN [cl |-> cl1, tp |-> tp, rc |-> "ERRCLIENTDC", staged |-> flush]
       ELSE
       LET hasw == will.present
           tp1  == IF hasw THEN sol_topic_get_or_create(tp, will.topic) ELSE tp
           lwt  == lwt_packet(will)
           tp2  == IF hasw /\ will.retain = 1
                   THEN [tp1 EXCEPT ![will.topic].retained_msg = mqtt_pack(lwt)]
                   ELSE tp1
           cl2  == [cl1 EXCEPT
                      !.client_id = cid,
                      !.has_lwt = IF hasw THEN TRUE ELSE @,
                      !.lwt_msg = IF hasw THEN lwt ELSE @,
                      !.clean_session = clean,
                      !.subscriptions = IF clean THEN << >> ELSE @,
                      !.outgoing_msgs = IF clean THEN << >> ELSE @]
       IN [cl |-> [cl2 EXCEPT !.wbuf = Append(@, set_payload_connack(MQTT_CONNECTION_ACCEPTED))],
           tp |-> tp2, rc |-> "REPLY", staged |-> flush]

(***************************************************************************)
(* disconnect_handler                                                      *)
(***************************************************************************)
RECURSIVE DelAll(_, _, _)
DelAll(st, names, key) ==
    IF names = << >> THEN st
    ELSE DelAll(topic_del_subscriber(st, Head(names), key), Tail(names), key)

\* st = [tp, sr]: with clean_session the client is removed from every topic
\* of its subscriptions list
disconnect_handler(cl, st) ==
    IF cl.clean_session = TRUE /\ Len(cl.subscriptions) > 0
    THEN DelAll(st, cl.subscriptions, cl.client_id)
    ELSE st


(***************************************************************************)
(* subscribe_handler                                                       *)
(***************************************************************************)
\* recursive_sub on one topic: st = [cl, tp, sr, ...], sid the shared record
recursive_sub(st, name, sid) ==
    LET key == st.cl.client_id
    IN [st EXCEPT
          !.sr[sid].refs = @ + 1,
          !.tp[name].subscribers = hashtable_put(@, key, sid),
          !.cl.subscriptions = IF st.cl.clean_session = FALSE
                               THEN list_push(@, name) ELSE @]

RECURSIVE PrefixMap(_, _, _)
PrefixMap(st, names, sid) ==
    IF names = << >> THEN st
    ELSE PrefixMap(recursive_sub(st, Head(names), sid), Tail(names), sid)

\* the wildcard branch: one shared record installed by trie_prefix_map
WildcardSub(st, c, name, qos) ==
    LET sid == NewSid(st.sr)
        s1  == [st EXCEPT !.sr = (sid :> [client |-> c, qos |-> qos, refs |-> 0]) @@ st.sr]
    IN PrefixMap(s1, trie_prefix_map(s1.tp, name), sid)

\* the retained message of the tuple's topic, staged when there is one
RetainedReplay(t) ==
    IF t.retained_msg # NoPacket THEN <<t.retained_msg>> ELSE << >>

\* one (topic, qos) tuple; st.wildcard is the handler's flag, set by a "/#"
\* tuple and never cleared
SubscribeOne(st, c, tuple) ==
    LET name == SubscribeTopic(tuple.topic)
        wild == st.wildcard \/ SubscribeIsWildcard(tuple.topic)
        s1   == [st EXCEPT !.tp = sol_topic_get_or_create(@, name),
                           !.wildcard = wild]
        s2   == IF wild THEN WildcardSub(s1, c, name, tuple.qos) ELSE s1
        s3   == topic_add_subscriber(s2, name, c, s2.cl.client_id, tuple.qos)
        rep  == RetainedReplay(s3.tp[name])
    IN [s3 EXCEPT
          !.cl.subscriptions = list_push(@, name),
          !.cl.wbuf = @ \o rep,
          !.out = StagedAll(@, rep),
          !.rcs = Append(@, tuple.qos)]

RECURSIVE SubscribeAll(_, _, _)
SubscribeAll(st, c, tuples) ==
    IF tuples = << >> THEN st
    ELSE SubscribeAll(SubscribeOne(st, c, Head(tuples)), c, Tail(tuples))

\* the SUBACK: the packet id of the SUBSCRIBE and the granted QoS list
mqtt_suback(pkt_id, rcs) == Packet("SUBACK", 0, 0, pkt_id, << >>, "", rcs)

\* where the SUBACK goes among the bytes the handler stages
\* (StageSubackFirst: written at the start of the buffer instead of at
\* towrite)
StageSubackFirst(wbuf, suback) == <<suback>> \o wbuf

StageSuback(wbuf, suback) == Append(wbuf, suback)

\* subscribe_handler: cl the client record, out the client's history
subscribe_handler(cl, tp, sr, out, c, tuples, pkt_id) ==
    LET st == SubscribeAll([cl |-> cl, tp |-> tp, sr |-> sr, out |-> out,
                            wildcard |-> FALSE, rcs |-> << >>], c, tuples)
    IN [st EXCEPT !.cl.wbuf = StageSuback(@, mqtt_suback(pkt_id, st.rcs))]

(***************************************************************************)
(* unsubscribe_handler                                                     *)
(***************************************************************************)
RECURSIVE UnsubscribeAll(_, _, _)
UnsubscribeAll(st, key, raws) ==
    IF raws = << >> THEN st
    ELSE UnsubscribeAll(
            IF sol_topic_exists(st.tp, Head(raws))
            THEN topic_del_subscriber(st, Head(raws), key) ELSE st,
            key, Tail(raws))

\* unsubscribe_handler: the filters are looked up as sent
unsubscribe_handler(cl, tp, sr, raws, pkt_id) ==
    LET st == UnsubscribeAll([tp |-> tp, sr |-> sr], cl.client_id, raws)
    IN [cl |-> [cl EXCEPT !.wbuf = Append(@, mqtt_pack_mono("UNSUBACK", pkt_id))],
        tp |-> st.tp, sr |-> st.sr]

(***************************************************************************)
(* The ack handlers, on the client record cl and the pool pl.             *)
(***************************************************************************)
puback_handler(cl, pl, k) ==
    [cl |-> [cl EXCEPT !.i_msgs[k].in_use = FALSE,
                       !.i_acks[k].in_use = FALSE,
                       !.has_inflight = FALSE],
     pl |-> memorypool_free(pl, cl.i_msgs[k].packet),
     rc |-> "NOREPLY"]

\* with the slot in use the handler stores PUBREL through the slot's
\* packet pointer, that is into the dead frame: the slot keeps the pointer
pubrec_handler(cl, pl, k) ==
    [cl |-> [cl EXCEPT !.wbuf = Append(@, mqtt_pack_mono("PUBREL", k))],
     pl |-> pl,
     rc |-> "REPLY"]

pubrel_handler(cl, pl, k) ==
    [cl |-> [cl EXCEPT !.wbuf = Append(@, mqtt_pack_mono("PUBCOMP", k)),
                       !.in_i_acks[k].in_use = FALSE,
                       !.has_inflight = FALSE],
     pl |-> pl,
     rc |-> "REPLY"]

\* a PUBCOMP handler that forgets the ack slot
pubcomp_keeps_ack(cl, pl, k) ==
    [cl |-> [cl EXCEPT !.i_msgs[k].in_use = FALSE,
                       !.has_inflight = FALSE],
     pl |-> memorypool_free(pl, cl.i_msgs[k].packet),
     rc |-> "NOREPLY"]

pubcomp_handler(cl, pl, k) ==
    [cl |-> [cl EXCEPT !.i_acks[k].in_use = FALSE,
                       !.i_msgs[k].in_use = FALSE,
                       !.has_inflight = FALSE],
     pl |-> memorypool_free(pl, cl.i_msgs[k].packet),
     rc |-> "NOREPLY"]

pingreq_handler(cl) ==
    [cl EXCEPT !.wbuf = Append(@, Packet("PINGRESP", 0, 0, 0, << >>, "", << >>))]

(***************************************************************************)
(* publish_handler                                                         *)
(***************************************************************************)
\* the ack owed to the publisher: nothing for QoS 0, PUBACK for QoS 1,
\* in_i_acks[orig_mid] and PUBREC for QoS 2
AckPublisher(cl, qos, orig_mid) ==
    IF qos = AT_MOST_ONCE THEN cl
    ELSE IF qos = EXACTLY_ONCE
    THEN [cl EXCEPT !.in_i_acks[orig_mid] = inflight_ack_init,
                    !.has_inflight = TRUE,
                    !.wbuf = Append(@, mqtt_pack_mono("PUBREC", orig_mid))]
    ELSE [cl EXCEPT !.wbuf = Append(@, mqtt_pack_mono("PUBACK", orig_mid))]

\* publish_handler for the PUBLISH data from client c; name is the
\* normalised topic, order the iteration order of its subscribers
publish_handler(cls, tp, sr, pl, out, fan, c, data, name, order) ==
    LET tp1 == sol_topic_get_or_create(tp, name)
        b   == memorypool_alloc(pl)
        tp2 == IF data.retain = 1
               THEN [tp1 EXCEPT ![name].retained_msg = mqtt_pack(data)]
               ELSE tp1
        st  == publish_message([cl |-> cls, pkt |-> data, out |-> out, fan |-> fan],
                               tp2[name], order, sr, b)
    IN [cl  |-> [st.cl EXCEPT ![c] = AckPublisher(@, data.qos, data.pkt_id)],
        tp  |-> tp2,
        pl  |-> [pl EXCEPT ![b] = [used |-> TRUE, pkt |-> st.pkt, frees |-> 0]],
        out |-> st.out,
        fan |-> st.fan,
        rc  |-> IF data.qos = AT_MOST_ONCE THEN "NOREPLY" ELSE "REPLY"]


(***************************************************************************)
(* Actions: the reactor's steps and one action per handled packet.         *)
(***************************************************************************)
\* the caps of the model's sequences
Bounded(cls) ==
    \A c \in Clients :
        /\ Len(cls[c].wbuf) <= MaxWbuf
        /\ Len(cls[c].subscriptions) <= MaxSubs
        /\ Len(cls[c].outgoing_msgs) <= MaxQueue

\* staged packets not yet flushed, over all clients
RECURSIVE Pending(_, _)
Pending(cls, S) ==
    IF S = {} THEN 0
    ELSE LET c == CHOOSE x \in S : TRUE
         IN Len(cls[c].wbuf) + Pending(cls, S \ {c})

\* the process is running: no packet has ended it
Running == last.rc # "CRASH"

\* bound of the model: a packet is dispatched while at most MaxPending
\* staged packets wait in the write buffers.  handle_command has no such
\* test; the handlers append to wbuf whatever it holds.
Dispatchable == Running /\ Pending(clients, Clients) <= MaxPending

\* a client whose packets reach handle_command: its transport is open and
\* no handler outcome asks for its teardown.  handle_command does not ask
\* whether a CONNECT was handled before.
Connected(c) == clients[c].online /\ teardown[c] = "NONE"

\* the reactor closes the transport on these return codes
ClosesTransport(rc) ==
    rc \in {"ERRCLIENTDC", "BAD_USERNAME_OR_PASSWORD", "NOT_AUTHORIZED"}

\* the return codes on which the reactor flushes wbuf before it closes
ClosesAfterFlush == {"BAD_USERNAME_OR_PASSWORD", "NOT_AUTHORIZED"}

\* the reactor accepts a connection for client slot c
Accept(c) ==
    /\ Running
    /\ ~clients[c].online
    /\ clients' = [clients EXCEPT ![c].online = TRUE]
    /\ last' = MkLast("ACCEPT", c, "NOREPLY", 0, << >>, 0, << >>, FALSE)
    /\ UNCHANGED <<topics, subrecs, pool, allow_anonymous, outstanding, fanned, handled, teardown, generated>>

\* the transport of c is lost without a DISCONNECT packet
Close(c) ==
    /\ Running
    /\ clients[c].online
    /\ teardown[c] = "NONE"
    /\ clients' = [clients EXCEPT ![c].online = FALSE]
    /\ last' = MkLast("CLOSE", c, "NOREPLY", 0, << >>, 0, << >>, FALSE)
    /\ UNCHANGED <<topics, subrecs, pool, allow_anonymous, outstanding, fanned, handled, teardown, generated>>

\* the reactor closes the transport of c after a handler returned a code
\* of ClosesTransport: at once, or once wbuf is flushed
Teardown(c) ==
    /\ Running
    /\ teardown[c] # "NONE"
    /\ teardown[c] \in ClosesAfterFlush => clients[c].wbuf = << >>
    /\ clients' = [clients EXCEPT ![c].online = FALSE]
    /\ teardown' = [teardown EXCEPT ![c] = "NONE"]
    /\ last' = [MkLast("TEARDOWN", c, "NOREPLY", 0, << >>, 0, << >>, FALSE)
                   EXCEPT !.cause = teardown[c]]
    /\ UNCHANGED <<topics, subrecs, pool, allow_anonymous, outstanding, fanned, handled, generated>>

\* the reactor flushes the write buffer of c
Write(c) ==
    /\ Running
    /\ clients[c].wbuf # << >>
    /\ clients' = [clients EXCEPT ![c].wbuf = << >>]
    /\ last' = MkLast("WRITE", c, "NOREPLY", 0, << >>, 0, << >>, FALSE)
    /\ UNCHANGED <<topics, subrecs, pool, allow_anonymous, outstanding, fanned, handled, teardown, generated>>

\* handle_command: CONNECT.  The handler calls generate_random_id when the
\* CONNECT passed the two gates and carries no client id; t is what the
\* clock reads then.
Connect(c, id, clean, will, auth) ==
    /\ Dispatchable
    /\ Connected(c)
    /\ handled' = handled + 1
    /\ generated < Len(RandomIds)
    /\ \E t \in IF AuthPasses(allow_anonymous, auth) /\ id = "" /\ clean
                THEN unix_time_ns(generated) ELSE {generated} :
       \E r \in strncmp(clients[c].client_id,
                        IF id = "" /\ t >= 1 THEN generate_random_id(t) ELSE id) :
         LET rid == IF id = "" /\ t >= 1 THEN generate_random_id(t) ELSE id
             res == connect_handler(clients[c], topics, pool, allow_anonymous,
                                    id, clean, will, auth, rid, r)
             cls == [clients EXCEPT ![c] = res.cl]
         IN /\ Bounded(cls)
            /\ generated' = t
            /\ clients' = cls
            /\ topics' = res.tp
            /\ outstanding' = [outstanding EXCEPT ![c] = StagedAll(@, res.staged)]
            /\ fanned' = [fanned EXCEPT
                            ![c] = IF res.rc = "REPLY" /\ clean THEN << >> ELSE @]
            /\ teardown' = [teardown EXCEPT
                              ![c] = IF ClosesTransport(res.rc) THEN res.rc ELSE @]
            /\ last' = [MkLast("CONNECT", c, res.rc, 0, << >>, 0, << >>, clean)
                           EXCEPT !.id = id, !.will = will, !.auth = auth]
    /\ UNCHANGED <<subrecs, pool, allow_anonymous>>

Disconnect(c) ==
    /\ Dispatchable
    /\ Connected(c)
    /\ handled' = handled + 1
    /\ LET st == disconnect_handler(clients[c], [tp |-> topics, sr |-> subrecs])
       IN /\ topics' = st.tp
          /\ subrecs' = Reachable(st.sr, st.tp)
    /\ teardown' = [teardown EXCEPT ![c] = "DISCONNECT"]
    /\ last' = MkLast("DISCONNECT", c, "ERRCLIENTDC", 0, << >>, 0, << >>, FALSE)
    /\ UNCHANGED <<clients, pool, allow_anonymous, outstanding, fanned, generated>>

Subscribe(c, tuples, pkt_id) ==
    /\ Dispatchable
    /\ Connected(c)
    /\ handled' = handled + 1
    /\ LET st == subscribe_handler(clients[c], topics, subrecs, outstanding[c],
                                   c, tuples, pkt_id)
           cls == [clients EXCEPT ![c] = st.cl]
       IN /\ Bounded(cls)
          /\ clients' = cls
          /\ topics' = st.tp
          /\ subrecs' = Reachable(st.sr, st.tp)
          /\ outstanding' = [outstanding EXCEPT ![c] = st.out]
    /\ last' = MkLast("SUBSCRIBE", c, "REPLY", pkt_id, << >>, 0, tuples, FALSE)
    /\ UNCHANGED <<pool, allow_anonymous, fanned, teardown, generated>>

Unsubscribe(c, raws, pkt_id) ==
    /\ Dispatchable
    /\ Connected(c)
    /\ handled' = handled + 1
    /\ LET res == unsubscribe_handler(clients[c], topics, subrecs, raws, pkt_id)
           cls == [clients EXCEPT ![c] = res.cl]
       IN /\ Bounded(cls)
          /\ clients' = cls
          /\ topics' = res.tp
          /\ subrecs' = Reachable(res.sr, res.tp)
    /\ last' = MkLast("UNSUBSCRIBE", c, "REPLY", pkt_id, << >>, 0, raws, FALSE)
    /\ UNCHANGED <<pool, allow_anonymous, outstanding, fanned, teardown, generated>>

Publish(c, raw, qos, retain, pkt_id, payload, junk) ==
    /\ Dispatchable
    /\ Connected(c)
    /\ handled' = handled + 1
    /\ LET name == PublishTopic(raw, junk)
           data == Packet("PUBLISH", qos, retain, pkt_id, raw, payload, << >>)
           keys == IF sol_topic_exists(topics, name)
                   THEN DOMAIN topics[name].subscribers ELSE {}
       IN IF memorypool_alloc(pool) = NULL
          THEN \* the handler stores through the null pointer: the process ends
               /\ last' = [MkLast("PUBLISH", c, "CRASH", pkt_id, name, qos, << >>, FALSE)
                              EXCEPT !.payload = payload, !.raw = raw,
                                     !.retain = retain]
               /\ UNCHANGED <<clients, topics, pool, outstanding, fanned>>
          ELSE \E order \in Perms(keys) :
            LET res == publish_handler(clients, topics, subrecs, pool,
                                       outstanding, fanned, c, data, name, order)
            IN /\ Bounded(res.cl)
               /\ clients' = res.cl
               /\ topics' = res.tp
               /\ pool' = res.pl
               /\ outstanding' = res.out
               /\ fanned' = res.fan
               /\ last' = [MkLast("PUBLISH", c, res.rc, pkt_id, name, qos, order, FALSE)
                              EXCEPT !.payload = payload, !.raw = raw,
                                     !.retain = retain]
    /\ UNCHANGED <<subrecs, allow_anonymous, teardown, generated>>

\* the terminal acks end what was staged with id k
Acked(out, c, k) == [out EXCEPT ![c][k] = 0]

Puback(c, k) ==
    /\ Dispatchable
    /\ Connected(c)
    /\ handled' = handled + 1
    /\ LET res == puback_handler(clients[c], pool, k)
       IN /\ clients' = [clients EXCEPT ![c] = res.cl]
          /\ pool' = res.pl
          /\ last' = MkLast("PUBACK", c, res.rc, k, << >>, 0, << >>, FALSE)
    /\ outstanding' = Acked(outstanding, c, k)
    /\ UNCHANGED <<topics, subrecs, allow_anonymous, fanned, teardown, generated>>

Pubrec(c, k) ==
    /\ Dispatchable
    /\ Connected(c)
    /\ handled' = handled + 1
    /\ LET res == pubrec_handler(clients[c], pool, k)
           cls == [clients EXCEPT ![c] = res.cl]
       IN /\ Bounded(cls)
          /\ clients' = cls
          /\ last' = MkLast("PUBREC", c, res.rc, k, << >>, 0, << >>, FALSE)
    /\ UNCHANGED <<topics, subrecs, pool, allow_anonymous, outstanding, fanned, teardown, generated>>

Pubrel(c, k) ==
    /\ Dispatchable
    /\ Connected(c)
    /\ handled' = handled + 1
    /\ LET res == pubrel_handler(clients[c], pool, k)
           cls == [clients EXCEPT ![c] = res.cl]
       IN /\ Bounded(cls)
          /\ clients' = cls
          /\ last' = MkLast("PUBREL", c, res.rc, k, << >>, 0, << >>, FALSE)
    /\ UNCHANGED <<topics, subrecs, pool, allow_anonymous, outstanding, fanned, teardown, generated>>

Pubcomp(c, k) ==
    /\ Dispatchable
    /\ Connected(c)
    /\ handled' = handled + 1
    /\ LET res == pubcomp_handler(clients[c], pool, k)
       IN /\ clients' = [clients EXCEPT ![c] = res.cl]
          /\ pool' = res.pl
          /\ last' = MkLast("PUBCOMP", c, res.rc, k, << >>, 0, << >>, FALSE)
    /\ outstanding' = Acked(outstanding, c, k)
    /\ UNCHANGED <<topics, subrecs, allow_anonymous, fanned, teardown, generated>>

Pingreq(c) ==
    /\ Dispatchable
    /\ Connected(c)
    /\ handled' = handled + 1
    /\ LET cls == [clients EXCEPT ![c] = pingreq_handler(@)]
       IN /\ Bounded(cls)
          /\ clients' = cls
    /\ last' = MkLast("PINGREQ", c, "REPLY", 0, << >>, 0, << >>, FALSE)
    /\ UNCHANGED <<topics, subrecs, pool, allow_anonymous, outstanding, fanned, teardown, generated>>

(***************************************************************************)
(* handle_command: the dispatch through the handlers table.                *)
(***************************************************************************)
\* the 4-bit control types a fixed header can carry
ControlTypes == 0..15

\* the handlers table, indexed by control type; "NULL" is a null entry
handlers ==
    [t \in 0..14 |->
        CASE t = 1  -> "connect_handler"
          [] t = 3  -> "publish_handler"
          [] t = 4  -> "puback_handler"
          [] t = 5  -> "pubrec_handler"
          [] t = 6  -> "pubrel_handler"
          [] t = 7  -> "pubcomp_handler"
          [] t = 8  -> "subscribe_handler"
          [] t = 10 -> "unsubscribe_handler"
          [] t = 12 -> "pingreq_handler"
          [] t = 14 -> "disconnect_handler"
          [] OTHER  -> "NULL"]

\* handle_command(type, event): the handler called, or "UNDEFINED" when the
\* call goes through a null entry or through what lies behind the table
handle_command(type) ==
    IF type \in DOMAIN handlers /\ handlers[type] # "NULL"
    THEN handlers[type]
    ELSE "UNDEFINED"

\* what an undefined call can do: end the process, or come back with some
\* return code
UndefinedCall == {"CRASH", "ERRCLIENTDC", "REPLY", "NOREPLY"}

\* a packet whose control type has no handler
Unknown(c, type) ==
    /\ Dispatchable
    /\ Connected(c)
    /\ handle_command(type) = "UNDEFINED"
    /\ handled' = handled + 1
    /\ \E rc \in UndefinedCall :
          /\ last' = [MkLast("UNKNOWN", c, rc, 0, << >>, 0, << >>, FALSE)
                         EXCEPT !.type = type]
          /\ teardown' = [teardown EXCEPT
                            ![c] = IF ClosesTransport(rc) THEN rc ELSE @]
    /\ UNCHANGED <<clients, topics, subrecs, pool, allow_anonymous, outstanding, fanned, generated>>

(***************************************************************************)
(* Specifications.                                                         *)
(***************************************************************************)
\* the client id each client connects with
IdOf(c) == IF c = "c1" THEN "A" ELSE "B"

Init ==
    /\ clients = [c \in Clients |-> client_init]
    /\ topics = << >>
    /\ subrecs = << >>
    /\ pool = pool_init
    /\ allow_anonymous = TRUE
    /\ last = NoLast
    /\ outstanding = [c \in Clients |-> [k \in Mids |-> 0]]
    /\ fanned = [c \in Clients |-> << >>]
    /\ handled = 0
    /\ teardown = [c \in Clients |-> "NONE"]
    /\ generated = 0

\* topic names and filters of the scenarios
tx == <<"x">>
ty == <<"y">>
tab == <<"a", "/", "b">>
tac == <<"a", "/", "c">>
tacs == <<"a", "/", "c", "/">>
tawild == <<"a", "/", "#">>
\* what the uninitialised bytes of publish_handler's buffer may hold
JunkPlain == <<"?">>
JunkSlash == <<"/", "?">>

\* a run dispatches at most n packets
Budget(n) == handled < n

\* Inflight bookkeeping: one client that publishes to a topic it is
\* subscribed to, and acknowledges.
Next ==
    \/ Accept("c1")
    \/ Write("c1")
    \/ Budget(MaxPackets) /\ Connect("c1", "A", TRUE, NoWill, AuthNone)
    \/ Budget(MaxPackets) /\ \E q \in 1..2 :
          Subscribe("c1", <<[topic |-> tx, qos |-> q]>>, 1)
    \/ Budget(MaxPackets) /\ \E q \in 0..2, k \in 1..2 :
          Publish("c1", tx, q, 0, IF q = 0 THEN 0 ELSE k, "m1", JunkPlain)
    \/ Budget(MaxPackets) /\ \E k \in Mids : Puback("c1", k)
    \/ Budget(MaxPackets) /\ \E k \in Mids : Pubrec("c1", k)
    \/ Budget(MaxPackets) /\ \E k \in Mids : Pubrel("c1", k)
    \/ Budget(MaxPackets) /\ \E k \in Mids : Pubcomp("c1", k)

Spec == Init /\ [][Next]_vars

\* Fan-out: two subscribers with any granted QoS, before and after their
\* CONNECT, and a publisher of any QoS.
NextFanout ==
    \/ \E c \in Clients : Accept(c)
    \/ \E c \in Clients : Write(c)
    \/ Budget(MaxPacketsFanout) /\ \E c \in Clients :
          Connect(c, IdOf(c), c = "c1", NoWill, AuthNone)
    \/ Budget(MaxPacketsFanout) /\ \E c \in Clients, q \in 0..2 :
          Subscribe(c, <<[topic |-> tx, qos |-> q]>>, 1)
    \/ Budget(MaxPacketsFanout) /\ \E q \in 0..2 :
          Publish("c1", tx, q, 0, IF q = 0 THEN 0 ELSE 1, "m1", JunkPlain)

SpecFanout == Init /\ [][NextFanout]_vars


\* Sessions: a subscriber with a persistent session that goes offline and
\* comes back, and a publisher that is subscribed itself and acknowledges.
NextSession ==
    \/ \E c \in Clients : Accept(c)
    \/ \E c \in Clients : Write(c)
    \/ Close("c2")
    \/ Budget(MaxPacketsSession) /\ Connect("c1", "A", TRUE, NoWill, AuthNone)
    \/ Budget(MaxPacketsSession) /\ Connect("c2", "B", FALSE, NoWill, AuthNone)
    \/ Budget(MaxPacketsSession) /\ \E c \in Clients :
          Subscribe(c, <<[topic |-> tx, qos |-> 1]>>, 1)
    \/ Budget(MaxPacketsSession) /\ Publish("c1", tx, 1, 0, 1, "m1", JunkPlain)
    \/ Budget(MaxPacketsSession) /\ Publish("c1", ty, 0, 0, 0, "m2", JunkPlain)
    \/ Budget(MaxPacketsSession) /\ Puback("c1", 1)

SpecSession == Init /\ [][NextSession]_vars

\* Offline queue: a subscriber with a persistent session that goes offline
\* and comes back, and a publisher that has sent no CONNECT, is subscribed
\* itself, acknowledges and publishes again.
NextQueue ==
    \/ \E c \in Clients : Accept(c)
    \/ \E c \in Clients : Write(c)
    \/ Close("c2")
    \/ Budget(MaxPacketsQueue) /\ Connect("c2", "B", FALSE, NoWill, AuthNone)
    \/ Budget(MaxPacketsQueue) /\ \E c \in Clients :
          Subscribe(c, <<[topic |-> tx, qos |-> 1]>>, 1)
    \/ Budget(MaxPacketsQueue) /\ Publish("c1", tx, 1, 0, 1, "m1", JunkPlain)
    \/ Budget(MaxPacketsQueue) /\ Publish("c1", ty, 0, 0, 0, "m2", JunkPlain)
    \/ Budget(MaxPacketsQueue) /\ Puback("c1", 1)

SpecQueue == Init /\ [][NextQueue]_vars

\* Retained messages and wildcards: a publisher of retained messages and a
\* subscriber that subscribes with one or two tuples, unsubscribes,
\* disconnects and reconnects.
RetainTuples ==
    { <<[topic |-> tab, qos |-> 1]>>,
      <<[topic |-> tawild, qos |-> 1]>>,
      <<[topic |-> tab, qos |-> 1], [topic |-> tacs, qos |-> 1]>>,
      <<[topic |-> tawild, qos |-> 1], [topic |-> tab, qos |-> 1]>> }

NextRetain ==
    \/ \E c \in Clients : Accept(c)
    \/ \E c \in Clients : Write(c)
    \/ \E c \in Clients : Teardown(c)
    \/ Budget(MaxPacketsRetain) /\ Connect("c1", "A", TRUE, NoWill, AuthNone)
    \/ Budget(MaxPacketsRetain) /\ \E clean \in BOOLEAN :
          Connect("c2", "B", clean, NoWill, AuthNone)
    \/ Budget(MaxPacketsRetain) /\ Disconnect("c2")
    \/ Budget(MaxPacketsRetain) /\ \E t \in RetainTuples : Subscribe("c2", t, 1)
    \/ Budget(MaxPacketsRetain) /\ \E f \in {<<tab \o <<"/">> >>, <<tacs>>} :
          Unsubscribe("c2", f, 1)
    \/ Budget(MaxPacketsRetain) /\ \E t \in {tab, tac}, r \in 0..1 :
          Publish("c1", t, 1, r, 1, IF t = tab THEN "m1" ELSE "m2", JunkPlain)

SpecRetain == Init /\ [][NextRetain]_vars

\* Retained replay: a publisher of retained and plain messages on "a/b" and
\* "a/c", and a subscriber that connects with either clean_session and
\* subscribes with one or two tuples, plain and wildcard.
NextReplay ==
    \/ \E c \in Clients : Accept(c)
    \/ \E c \in Clients : Write(c)
    \/ Budget(MaxPacketsReplay) /\ Connect("c1", "A", TRUE, NoWill, AuthNone)
    \/ Budget(MaxPacketsReplay) /\ \E clean \in BOOLEAN :
          Connect("c2", "B", clean, NoWill, AuthNone)
    \/ Budget(MaxPacketsReplay) /\ \E t \in RetainTuples : Subscribe("c2", t, 1)
    \/ Budget(MaxPacketsReplay) /\ \E t \in {tab, tac}, r \in 0..1 :
          Publish("c1", t, 1, r, 1, IF t = tab THEN "m1" ELSE "m2", JunkPlain)

SpecReplay == Init /\ [][NextReplay]_vars

\* Dispatch: one client and packets of every control type, those without
\* a handler included.
NextDispatch ==
    \/ Accept("c1")
    \/ Write("c1")
    \/ Teardown("c1")
    \/ Budget(MaxPacketsDispatch) /\ \E clean \in BOOLEAN :
          Connect("c1", "A", clean, NoWill, AuthNone)
    \/ Budget(MaxPacketsDispatch) /\ Pingreq("c1")
    \/ Budget(MaxPacketsDispatch) /\
          Subscribe("c1", <<[topic |-> tx, qos |-> 1]>>, 1)
    \/ Budget(MaxPacketsDispatch) /\ \E q \in 0..1 :
          Publish("c1", tx, q, 0, q, "m1", JunkPlain)
    \/ Budget(MaxPacketsDispatch) /\ \E t \in ControlTypes :
          Unknown("c1", t)

SpecDispatch == Init /\ [][NextDispatch]_vars

\* Authentication: a broker started with either value of allow_anonymous
\* and one client that CONNECTs with every combination of credentials,
\* client id, clean_session and Will, and subscribes.
InitAuth ==
    /\ clients = [c \in Clients |-> client_init]
    /\ topics = << >>
    /\ subrecs = << >>
    /\ pool = pool_init
    /\ allow_anonymous \in BOOLEAN
    /\ last = NoLast
    /\ outstanding = [c \in Clients |-> [k \in Mids |-> 0]]
    /\ fanned = [c \in Clients |-> << >>]
    /\ handled = 0
    /\ teardown = [c \in Clients |-> "NONE"]
    /\ generated = 0

\* the credentials of a CONNECT: the two flags, whether the username has a
\* salt in sol.authentications, and what check_passwd returns
Auths ==
    {a \in [username : BOOLEAN, password : BOOLEAN,
            salt_found : BOOLEAN, passwd_ok : BOOLEAN] :
        /\ a.salt_found => (a.username /\ a.password)
        /\ a.passwd_ok => a.salt_found}

\* a retained Will on topic "x"
WillX == [present |-> TRUE, topic |-> tx, msg |-> "w", qos |-> 1, retain |-> 1]

NextAuth ==
    \/ Accept("c1")
    \/ Write("c1")
    \/ Teardown("c1")
    \/ Budget(MaxPacketsAuth) /\
          \E id \in {"", "A"}, clean \in BOOLEAN, will \in {NoWill, WillX}, auth \in Auths :
              Connect("c1", id, clean, will, auth)
    \/ Budget(MaxPacketsAuth) /\ Subscribe("c1", <<[topic |-> tx, qos |-> 1]>>, 1)

SpecAuth == InitAuth /\ [][NextAuth]_vars

\* Retained store: one client that CONNECTs with or without a retained
\* Will on "x" or "x/", publishes with and without retain, with and without
\* payload, to "x", "x/" and "y", and subscribes.
txs == tx \o <<"/">>
WillXSlash == [WillX EXCEPT !.topic = txs]

NextStore ==
    \/ Accept("c1")
    \/ Write("c1")
    \/ Budget(MaxPacketsStore) /\ \E will \in {NoWill, WillX, WillXSlash} :
          Connect("c1", "A", TRUE, will, AuthNone)
    \/ Budget(MaxPacketsStore) /\ Subscribe("c1", <<[topic |-> tx, qos |-> 1]>>, 1)
    \/ Budget(MaxPacketsStore) /\
          \E t \in {tx, txs, ty}, q \in 0..1, r \in 0..1, m \in {"", "m1"} :
              Publish("c1", t, q, r, q, m, JunkPlain)

SpecStore == Init /\ [][NextStore]_vars

\* Topic names: one client that subscribes and publishes to "x" and to
\* "x/", whatever the bytes behind publish_handler's copy of the name.

NextTopics ==
    \/ Accept("c1")
    \/ Write("c1")
    \/ Budget(MaxPacketsTopics) /\ Connect("c1", "A", TRUE, NoWill, AuthNone)
    \/ Budget(MaxPacketsTopics) /\ \E t \in {tx, txs}, q \in 0..1 :
          Subscribe("c1", <<[topic |-> t, qos |-> q]>>, 1)
    \/ Budget(MaxPacketsTopics) /\
          \E t \in {tx, txs}, q \in 0..1, junk \in {JunkPlain, JunkSlash} :
              Publish("c1", t, q, 0, q, "m1", junk)

SpecTopics == Init /\ [][NextTopics]_vars

\* Last Will: a client that CONNECTs with or without a Will on "x/" and
\* leaves by DISCONNECT or by losing its transport, and a subscriber of
\* the Will topic.  The reactor handles every event that is ready.
WillPlain == [present |-> TRUE, topic |-> txs, msg |-> "w", qos |-> 0, retain |-> 0]

NextWill ==
    \/ \E c \in Clients : Accept(c)
    \/ \E c \in Clients : Write(c)
    \/ \E c \in Clients : Teardown(c)
    \/ Close("c1")
    \/ Budget(MaxPacketsWill) /\ \E will \in {NoWill, WillPlain} :
          Connect("c1", "A", TRUE, will, AuthNone)
    \/ Budget(MaxPacketsWill) /\ Connect("c2", "B", TRUE, NoWill, AuthNone)
    \/ Budget(MaxPacketsWill) /\ Subscribe("c2", <<[topic |-> tx, qos |-> 0]>>, 1)
    \/ Budget(MaxPacketsWill) /\ Disconnect("c1")
    \/ Budget(MaxPacketsWill) /\ Publish("c1", tx, 0, 0, 0, "m1", JunkPlain)

SpecWill == Init /\ [][NextWill]_vars /\ WF_vars(NextWill)

\* SUBSCRIBE packets of several tuples: a publisher that creates the
\* topics "a/b/" and "a/c/", and a subscriber whose SUBSCRIBEs mix plain
\* filters and "/#" filters in either order and who UNSUBSCRIBEs with the
\* filters as it sent them.
ta == <<"a">>
tywild == <<"y", "/", "#">>

MixedTuples ==
    { <<[topic |-> ta, qos |-> 1]>>,
      <<[topic |-> ta, qos |-> 1], [topic |-> tywild, qos |-> 1]>>,
      <<[topic |-> tywild, qos |-> 1], [topic |-> ta, qos |-> 1]>>,
      <<[topic |-> tawild, qos |-> 1], [topic |-> ty, qos |-> 0]>> }

NextTuples ==
    \/ \E c \in Clients : Accept(c)
    \/ \E c \in Clients : Write(c)
    \/ Budget(MaxPacketsTuples) /\ \E c \in Clients :
          Connect(c, IdOf(c), TRUE, NoWill, AuthNone)
    \/ Budget(MaxPacketsTuples) /\ \E t \in MixedTuples : Subscribe("c2", t, 1)
    \/ Budget(MaxPacketsTuples) /\ \E f \in {ta, tawild, ty \o <<"/">>} :
          Unsubscribe("c2", <<f>>, 2)
    \/ Budget(MaxPacketsTuples) /\ \E t \in {tab, tac} :
          Publish("c1", t, 0, 0, 0, "m1", JunkPlain)

SpecTuples == Init /\ [][NextTuples]_vars

(***************************************************************************)
(* Properties.                                                             *)
(***************************************************************************)
\* the step handled a PUBLISH and publish_handler returned from it
PublishReturned == last'.op = "PUBLISH" /\ last'.rc # "CRASH"

\* some inflight slot of client c is in use
SlotInUse(c) ==
    \E k \in Mids : \/ clients[c].i_msgs[k].in_use
                    \/ clients[c].i_acks[k].in_use
                    \/ clients[c].in_i_acks[k].in_use

\* C1: in every reachable state, for every client, has_inflight is true
\* exactly when one of its i_msgs, i_acks or in_i_acks slots is in use.
C1_HasInflightIffSlotInUse ==
    \A c \in Clients : clients[c].has_inflight <=> SlotInUse(c)

\* C3 as stated: after a PUBCOMP with id k from client c, the three slots
\* i_msgs[k], i_acks[k] and in_i_acks[k] of c are all free.
C3_AllThreeSlotsFree ==
    last.op = "PUBCOMP" =>
        /\ ~clients[last.c].i_msgs[last.pkt_id].in_use
        /\ ~clients[last.c].i_acks[last.pkt_id].in_use
        /\ ~clients[last.c].in_i_acks[last.pkt_id].in_use

\* C3 amended: handling a PUBCOMP with id k from client c frees i_msgs[k]
\* and i_acks[k] of c and leaves in_i_acks[k] of c as it was.
C3_PubcompFreesOutboundSlots ==
    [][last'.op = "PUBCOMP" =>
          /\ ~clients'[last'.c].i_msgs[last'.pkt_id].in_use
          /\ ~clients'[last'.c].i_acks[last'.pkt_id].in_use
          /\ clients'[last'.c].in_i_acks = clients[last'.c].in_i_acks]_vars

\* C3 witness: a PUBCOMP has just released a slot whose pooled packet was
\* thereby freed for the first time, while the inbound slot of the same id
\* is still in use.
C3_Witness ==
    /\ last.op = "PUBCOMP"
    /\ clients[last.c].in_i_acks[last.pkt_id].in_use
    /\ clients[last.c].i_msgs[last.pkt_id].packet # NULL
    /\ pool[clients[last.c].i_msgs[last.pkt_id].packet].frees = 1
    /\ ~pool[clients[last.c].i_msgs[last.pkt_id].packet].used

\* C4: a PUBACK for an id whose i_msgs slot is not in use changes nothing
\* of the broker's state; in particular the pool is not released into again.
C4_PubackIdempotent ==
    [][(last'.op = "PUBACK" /\ ~clients[last'.c].i_msgs[last'.pkt_id].in_use)
          => broker' = broker]_vars

\* C5: a CONNECT from a client that is online under the client id the
\* CONNECT carries returns the client-disconnect outcome, stages no CONNACK
\* and leaves the session as it was.
C5_DoubleConnectDisconnects ==
    [][(/\ last'.op = "CONNECT"
        /\ clients[last'.c].online
        /\ clients[last'.c].client_id # ""
        /\ last'.id = clients[last'.c].client_id)
          => /\ last'.rc = "ERRCLIENTDC"
             /\ \A i \in 1..Len(clients'[last'.c].wbuf) :
                    clients'[last'.c].wbuf[i].type # "CONNACK"
             /\ clients'[last'.c].clean_session = clients[last'.c].clean_session
             /\ clients'[last'.c].subscriptions = clients[last'.c].subscriptions
             /\ clients'[last'.c].outgoing_msgs = clients[last'.c].outgoing_msgs
             /\ clients'[last'.c].lwt_msg = clients[last'.c].lwt_msg]_vars


\* the packets a step appended to the write buffer of client c
Appended(c) ==
    SubSeq(clients'[c].wbuf, Len(clients[c].wbuf) + 1, Len(clients'[c].wbuf))

IsPublish(p) == p.type = "PUBLISH"

\* C2: the PUBLISHes that the handling of a PUBLISH stages into the write
\* buffer of an online client are one for each subscriber s of the topic
\* that belongs to that client (a client that subscribed before and after
\* its CONNECT owns two), in the order the subscribers were visited, and
\* the QoS of each is the minimum of the publisher's QoS and s.qos,
\* whatever the iteration order and the QoS of the subscribers visited
\* before.  A PUBLISH that ends the process stages nothing.
C2_EffectiveQosLaw ==
    [][last'.op = "PUBLISH" =>
          \A d \in Clients :
              LET subs == topics'[last'.topic].subscribers
                  keys == SelectSeq(last'.tuples,
                                    LAMBDA k : subrecs[subs[k]].client = d)
                  pubs == SelectSeq(Appended(d), IsPublish)
              IN clients[d].online =>
                    /\ Len(pubs) = Len(keys)
                    /\ \A i \in 1..Len(keys) :
                           pubs[i].qos = Min(last'.qos, subrecs[subs[keys[i]]].qos)]_vars

\* C2 witness: a QoS-2 PUBLISH fanned out first to a subscriber with
\* granted QoS 0 and then to a subscriber with granted QoS 2, of another
\* client; both clients are online and each has its own QoS staged.
C2_Witness ==
    /\ last.op = "PUBLISH" /\ last.rc # "CRASH" /\ last.qos = 2
    /\ Len(last.tuples) = 2
    /\ LET subs == topics[last.topic].subscribers
           s1   == subrecs[subs[last.tuples[1]]]
           s2   == subrecs[subs[last.tuples[2]]]
       IN /\ s1.qos = 0 /\ s2.qos = 2 /\ s1.client # s2.client
          /\ clients[s1.client].online /\ clients[s2.client].online
          /\ \E i \in 1..Len(clients[s1.client].wbuf) :
                /\ clients[s1.client].wbuf[i].type = "PUBLISH"
                /\ clients[s1.client].wbuf[i].qos = 0
          /\ \E i \in 1..Len(clients[s2.client].wbuf) :
                /\ clients[s2.client].wbuf[i].type = "PUBLISH"
                /\ clients[s2.client].wbuf[i].qos = 2

\* the subscribers of a topic whose client is offline with a persistent
\* session
OfflinePersistent(n) ==
    {subrecs[topics[n].subscribers[key]].client :
        key \in (IF n \in DOMAIN topics THEN DOMAIN topics[n].subscribers ELSE {})}
    \cap {c \in Clients : ~clients[c].online /\ ~clients[c].clean_session}

\* the number of subscribers of topic n that belong to client c
SubscribersOf(n, c) ==
    Cardinality({key \in DOMAIN topics[n].subscribers :
                    subrecs[topics[n].subscribers[key]].client = c})

\* C6: a PUBLISH fanned out to an offline subscriber with clean_session
\* false is appended to its outgoing_msgs, once for each subscriber of the
\* topic that belongs to it, and nothing is written to its wbuf; its next accepted CONNECT with clean_session false stages the
\* queued PUBLISHes, as they were fanned out and in that order, and then
\* the CONNACK.
C6_OfflineQueueLaw ==
    [][/\ PublishReturned =>
            \A c \in OfflinePersistent(last'.topic) :
               /\ Len(clients'[c].outgoing_msgs) =
                     Len(clients[c].outgoing_msgs) + SubscribersOf(last'.topic, c)
               /\ \A i \in (Len(clients[c].outgoing_msgs) + 1)..Len(clients'[c].outgoing_msgs) :
                     pool'[clients'[c].outgoing_msgs[i]].pkt.payload = last'.payload
               /\ clients'[c].wbuf = clients[c].wbuf
       /\ (last'.op = "CONNECT" /\ last'.rc = "REPLY" /\ ~last'.clean) =>
            LET new == Appended(last'.c)
                q   == fanned[last'.c]
            IN /\ Len(new) = Len(q) + 1
               /\ \A i \in 1..Len(q) :
                     /\ new[i].type = "PUBLISH"
                     /\ new[i].topic = q[i].topic
                     /\ new[i].payload = q[i].payload
               /\ new[Len(new)].type = "CONNACK"]_vars

\* the retained message of the topic a SUBSCRIBE tuple names, if any
RetainedOf(tuple) ==
    LET name == SubscribeTopic(tuple.topic)
    IN IF name \in DOMAIN topics /\ topics[name].retained_msg # NoPacket
       THEN <<topics[name].retained_msg>> ELSE << >>

RECURSIVE RetainedOfAll(_)
RetainedOfAll(tuples) ==
    IF tuples = << >> THEN << >>
    ELSE RetainedOf(Head(tuples)) \o RetainedOfAll(Tail(tuples))

\* C7: a SUBSCRIBE appends to the client's wbuf, for each tuple in order,
\* the retained message of the tuple's topic when it has one and nothing
\* otherwise, and after them the SUBACK.
C7_RetainedBeforeSuback ==
    [][last'.op = "SUBSCRIBE" =>
          LET new == Appended(last'.c)
              ret == RetainedOfAll(last'.tuples)
          IN /\ Len(new) = Len(ret) + 1
             /\ SubSeq(new, 1, Len(ret)) = ret
             /\ new[Len(new)].type = "SUBACK"
             /\ new[Len(new)].pkt_id = last'.pkt_id]_vars

\* C7 witness: a SUBSCRIBE with two tuples has staged two different
\* retained messages and then the SUBACK.
C7_Witness ==
    /\ last.op = "SUBSCRIBE" /\ Len(last.tuples) = 2
    /\ Len(clients[last.c].wbuf) = 3
    /\ clients[last.c].wbuf[1].type = "PUBLISH"
    /\ clients[last.c].wbuf[2].type = "PUBLISH"
    /\ clients[last.c].wbuf[1] # clients[last.c].wbuf[2]
    /\ clients[last.c].wbuf[3].type = "SUBACK"

\* C8: a SUBSCRIBE to a filter "p/#" stages, before its SUBACK, the
\* retained message of every existing topic under the prefix "p/".
C8_WildcardRetainedReplay ==
    [][last'.op = "SUBSCRIBE" =>
          \A i \in 1..Len(last'.tuples) :
              SubscribeIsWildcard(last'.tuples[i].topic) =>
                  \A n \in DOMAIN topics :
                      (/\ IsPrefix(SubscribeTopic(last'.tuples[i].topic), n)
                       /\ topics[n].retained_msg # NoPacket)
                      => \E j \in 1..(Len(Appended(last'.c)) - 1) :
                             Appended(last'.c)[j] = topics[n].retained_msg]_vars

\* the topics of a subscriptions list
Range(f) == {f[i] : i \in DOMAIN f}

\* C9: every subscriber installed under a topic whose client has
\* clean_session false has that topic in its client's subscriptions.
C9_InstalledImpliesTracked ==
    \A n \in DOMAIN topics : \A key \in DOMAIN topics[n].subscribers :
        LET cl == clients[subrecs[topics[n].subscribers[key]].client]
        IN cl.clean_session = FALSE => n \in Range(cl.subscriptions)

\* C10: i_msgs[k] and i_acks[k] of a client are in use exactly when k is
\* the id of exactly one QoS>0 PUBLISH staged toward it and not yet
\* terminally acknowledged.
C10_SlotIffOutstanding ==
    \A c \in Clients : \A k \in Mids :
        /\ clients[c].i_msgs[k].in_use <=> outstanding[c][k] = 1
        /\ clients[c].i_acks[k].in_use <=> outstanding[c][k] = 1


\* the acknowledgement packets among those a step staged
IsAck(p) == p.type \in {"PUBACK", "PUBREC", "PUBREL", "PUBCOMP"}

\* C11: handling an inbound PUBLISH with QoS 0 returns NOREPLY and stages
\* no ack for the publisher; with QoS 1 it returns REPLY and stages exactly
\* one ack, a PUBACK; with QoS 2 it returns REPLY, stages exactly one ack,
\* a PUBREC, and marks in_i_acks[id] in use.  The ack carries the packet id
\* of the inbound PUBLISH.
C11_PublisherAckByQos ==
    [][last'.op = "PUBLISH" =>
          LET acks == SelectSeq(Appended(last'.c), IsAck)
          IN CASE last'.qos = 0 ->
                    /\ last'.rc = "NOREPLY"
                    /\ acks = << >>
               [] last'.qos = 1 ->
                    /\ last'.rc = "REPLY"
                    /\ Len(acks) = 1
                    /\ acks[1].type = "PUBACK"
                    /\ acks[1].pkt_id = last'.pkt_id
               [] last'.qos = 2 ->
                    /\ last'.rc = "REPLY"
                    /\ Len(acks) = 1
                    /\ acks[1].type = "PUBREC"
                    /\ acks[1].pkt_id = last'.pkt_id
                    /\ clients'[last'.c].in_i_acks[last'.pkt_id].in_use]_vars

\* C12: the handling of a QoS-2 PUBLISH with id k from p marks in_i_acks[k]
\* of p in use, stages PUBREC(k) to p and fans the PUBLISH out to the
\* online subscribers in that step; the slot stays in use through every
\* other step; PUBREL(k) from p frees it and stages PUBCOMP(k) to p and
\* nothing to anyone else.
C12_InboundQos2Handshake ==
    [][/\ (last'.op = "PUBLISH" /\ last'.qos = 2) =>
            LET new == Appended(last'.c)
            IN /\ clients'[last'.c].in_i_acks[last'.pkt_id].in_use
               /\ new # << >>
               /\ new[Len(new)].type = "PUBREC"
               /\ new[Len(new)].pkt_id = last'.pkt_id
               /\ \A key \in DOMAIN topics'[last'.topic].subscribers :
                     LET s == subrecs[topics'[last'.topic].subscribers[key]]
                     IN clients[s.client].online =>
                           \E i \in 1..Len(Appended(s.client)) :
                               /\ Appended(s.client)[i].type = "PUBLISH"
                               /\ Appended(s.client)[i].payload = last'.payload
       /\ \A c \in Clients : \A k \in Mids :
            (/\ clients[c].in_i_acks[k].in_use
             /\ ~(last'.op = "PUBREL" /\ last'.c = c /\ last'.pkt_id = k))
            => clients'[c].in_i_acks[k].in_use
       /\ last'.op = "PUBREL" =>
            /\ ~clients'[last'.c].in_i_acks[last'.pkt_id].in_use
            /\ Appended(last'.c) = <<Packet("PUBCOMP", 0, 0, last'.pkt_id, << >>, "", << >>)>>
            /\ \A d \in Clients \ {last'.c} :
                  /\ clients'[d].wbuf = clients[d].wbuf
                  /\ clients'[d].outgoing_msgs = clients[d].outgoing_msgs
            /\ clients'[last'.c].outgoing_msgs = clients[last'.c].outgoing_msgs
            /\ topics' = topics]_vars

\* C13: a packet whose control type is none of 1, 3, 4, 5, 6, 7, 8, 10, 12,
\* 14 gets the client-disconnect outcome and changes nothing of the broker's
\* state.
C13_UnknownTypeRejected ==
    [][(last'.op = "UNKNOWN" /\ last'.type \in {0, 2, 9, 11, 13, 15})
          => /\ last'.rc = "ERRCLIENTDC"
             /\ broker' = broker]_vars

\* what a rejected CONNECT must leave alone
SessionOf(cl) ==
    <<cl.client_id, cl.clean_session, cl.subscriptions, cl.outgoing_msgs,
      cl.has_lwt, cl.lwt_msg>>

\* C14: with allow_anonymous false, a CONNECT without the username flag or
\* the password flag, with an unknown user or a failing check_passwd gets
\* code 4; otherwise a CONNECT with an empty client id and clean_session
\* false gets code 5.  In both cases exactly one CONNACK with that code is
\* staged and the session and the topics stay as they were.  No CONNACK
\* ever carries a code other than 0, 4 and 5.
C14_ConnectRejection ==
    [][last'.op = "CONNECT" =>
          LET c   == last'.c
              a   == last'.auth
              bad == /\ ~allow_anonymous
                     /\ ~(a.username /\ a.password /\ a.salt_found /\ a.passwd_ok)
              na  == ~bad /\ last'.id = "" /\ ~last'.clean
              new == Appended(c)
          IN /\ bad => /\ last'.rc = "BAD_USERNAME_OR_PASSWORD"
                        /\ Len(new) = 1 /\ new[1].type = "CONNACK"
                        /\ new[1].rcs = <<4>>
                        /\ SessionOf(clients'[c]) = SessionOf(clients[c])
                        /\ topics' = topics
             /\ na  => /\ last'.rc = "NOT_AUTHORIZED"
                        /\ Len(new) = 1 /\ new[1].type = "CONNACK"
                        /\ new[1].rcs = <<5>>
                        /\ SessionOf(clients'[c]) = SessionOf(clients[c])
                        /\ topics' = topics
             /\ \A i \in 1..Len(new) :
                    new[i].type = "CONNACK" => new[i].rcs[1] \in {0, 4, 5}]_vars

\* C14 witness: a client with a session (client id "A", a subscription) has
\* sent a CONNECT with a Will and a wrong password to a broker that does not
\* allow anonymous clients: the CONNACK with code 4 is staged and the
\* session is still there.
C14_Witness ==
    /\ last.op = "CONNECT" /\ last.rc = "BAD_USERNAME_OR_PASSWORD"
    /\ ~allow_anonymous
    /\ last.auth.salt_found /\ ~last.auth.passwd_ok
    /\ last.will.present /\ last.clean
    /\ clients[last.c].client_id = "A"
    /\ clients[last.c].subscriptions # << >>
    /\ ~clients[last.c].has_lwt
    /\ clients[last.c].wbuf = <<Packet("CONNACK", 0, 0, 0, << >>, "", <<4>>)>>

\* the maps client id -> subscriber of all topics, without the shared
\* subscriber records
SubscriberKeys(tp) == [n \in DOMAIN tp |-> DOMAIN tp[n].subscribers]

\* every topic the client is installed on is one of its subscriptions or
\* lies under one of them (a "/#" subscription is listed by its prefix)
InstalledBySubscriptions(cl, tp) ==
    \A n \in DOMAIN tp :
        cl.client_id \in DOMAIN tp[n].subscribers =>
            \E i \in 1..Len(cl.subscriptions) : IsPrefix(cl.subscriptions[i], n)

\* C15: DISCONNECT returns the client-disconnect outcome; with
\* clean_session true a client whose installations all come from its
\* subscriptions is afterwards in no topic's subscriber map, the topics it
\* was installed under by a "/#" wildcard included; with clean_session
\* false the subscriber maps, the client's subscriptions and its
\* outgoing_msgs are unchanged.
C15_DisconnectCleansSubscriber ==
    [][last'.op = "DISCONNECT" =>
          LET c   == last'.c
              key == clients[c].client_id
          IN /\ last'.rc = "ERRCLIENTDC"
             /\ (/\ clients[c].clean_session = TRUE
                 /\ InstalledBySubscriptions(clients[c], topics)) =>
                    \A n \in DOMAIN topics' : key \notin DOMAIN topics'[n].subscribers
             /\ clients[c].clean_session = FALSE =>
                    /\ SubscriberKeys(topics') = SubscriberKeys(topics)
                    /\ clients'[c].subscriptions = clients[c].subscriptions
                    /\ clients'[c].outgoing_msgs = clients[c].outgoing_msgs]_vars

\* the retained message of topic n, none for a topic that does not exist
RetainedMsg(tp, n) == IF n \in DOMAIN tp THEN tp[n].retained_msg ELSE NoPacket

\* the retained messages of tp2 are those of tp1 except on the topics in S
RetainedSameExcept(tp1, tp2, S) ==
    \A n \in (DOMAIN tp1 \cup DOMAIN tp2) \ S :
        RetainedMsg(tp2, n) = RetainedMsg(tp1, n)

\* the name n with exactly one trailing '/'
WithOneSlash(n) == IF n[Len(n)] = "/" THEN n ELSE n \o <<"/">>

\* C16: a PUBLISH with retain=1 to the name n makes its packed bytes the
\* retained_msg of the topic of n (the topic named n with exactly one
\* trailing '/'), also with a zero-length payload, and changes no other
\* topic's retained_msg; a CONNECT with a Will and will_retain=1 does the
\* same with the packed Will on the topic of the Will's name; a PUBLISH
\* with retain=0 and every other step change no retained_msg.  Hence a
\* topic's retained_msg is always that of the most recent of these packets
\* on it.
C16_RetainedStore ==
    [][LET l == last'
       IN IF l.op = "PUBLISH" /\ l.retain = 1
          THEN /\ RetainedMsg(topics', WithOneSlash(l.raw)) =
                     mqtt_pack(Packet("PUBLISH", l.qos, 1, l.pkt_id, l.raw,
                                      l.payload, << >>))
               /\ RetainedSameExcept(topics, topics', {WithOneSlash(l.raw)})
          ELSE IF l.op = "CONNECT" /\ l.rc = "REPLY" /\ l.will.present
                  /\ l.will.retain = 1
          THEN /\ RetainedMsg(topics', WithOneSlash(l.will.topic)) =
                     Packet("PUBLISH", l.will.qos, 0, 0, l.will.topic,
                            l.will.msg, << >>)
               /\ RetainedSameExcept(topics, topics', {WithOneSlash(l.will.topic)})
          ELSE RetainedSameExcept(topics, topics', {})]_vars

\* C17: a PUBLISH to the name n and a non-wildcard SUBSCRIBE to n resolve
\* to the same topic, the one named n with exactly one trailing '/', for n
\* with and without a trailing '/'; hence a client subscribed to that topic
\* is staged the PUBLISH.
C17_SameNormalisation ==
    [][/\ PublishReturned =>
             LET n == WithOneSlash(last'.raw)
             IN /\ last'.topic = n
                /\ (/\ n \in DOMAIN topics
                    /\ clients[last'.c].client_id \in DOMAIN topics[n].subscribers) =>
                       \E i \in 1..Len(Appended(last'.c)) :
                           IsPublish(Appended(last'.c)[i])
       /\ last'.op = "SUBSCRIBE" =>
             \A i \in 1..Len(last'.tuples) :
                 ~SubscribeIsWildcard(last'.tuples[i].topic) =>
                     LET n == WithOneSlash(last'.tuples[i].topic)
                     IN /\ n \in DOMAIN topics'
                        /\ clients[last'.c].client_id \in DOMAIN topics'[n].subscribers]_vars

\* packet p is the Will of client record cl
IsWillOf(p, cl) ==
    /\ p.type = "PUBLISH"
    /\ p.topic = cl.lwt_msg.topic
    /\ p.payload = cl.lwt_msg.payload

\* the Will of client c is staged for, or queued for, client s
WillStaged(c, s) ==
    \/ \E i \in 1..Len(clients[s].wbuf) : IsWillOf(clients[s].wbuf[i], clients[c])
    \/ \E i \in 1..Len(clients[s].outgoing_msgs) :
           IsWillOf(pool[clients[s].outgoing_msgs[i]].pkt, clients[c])

\* the connection of c1, which CONNECTed with a Will, ended without a
\* DISCONNECT packet, by the loss of the transport or by the teardown after
\* a protocol violation, while c2 is an online subscriber of the Will topic
WillDue ==
    /\ (last.op = "CLOSE" \/ (last.op = "TEARDOWN" /\ last.cause # "DISCONNECT"))
    /\ last.c = "c1"
    /\ clients["c1"].has_lwt
    /\ clients["c2"].online
    /\ clients["c1"].lwt_msg.topic \in DOMAIN topics
    /\ clients["c2"].client_id \in
          DOMAIN topics[clients["c1"].lwt_msg.topic].subscribers

\* C18: when the connection of a client that CONNECTed with a Will ends
\* without a DISCONNECT packet, the broker eventually publishes the stored
\* lwt_msg to the subscribers of the Will topic; a DISCONNECT packet
\* publishes no Will.
C18_LastWillPublished ==
    /\ WillDue ~> WillStaged("c1", "c2")
    /\ [][(last'.op = "DISCONNECT" \/
            (last'.op = "TEARDOWN" /\ last'.cause = "DISCONNECT")) =>
             \A s \in Clients :
                 \A i \in 1..Len(Appended(s)) :
                     ~IsWillOf(Appended(s)[i], clients[last'.c])]_vars

\* C19: when the fan-out of a PUBLISH registers i_acks[mid] of a
\* subscriber for the PUBLISH it stages with id mid, the header type of the
\* ack the slot holds is PUBACK when the effective QoS, the QoS of the
\* staged PUBLISH, is 1 and PUBREC when it is 2.
C19_StubAckTypeByEffectiveQos ==
    [][PublishReturned =>
          \A s \in Clients :
              \A i \in 1..Len(Appended(s)) :
                  LET p == Appended(s)[i]
                  IN (/\ IsPublish(p) /\ p.qos > AT_MOST_ONCE
                      /\ p.pkt_id \in Mids
                      /\ ~clients[s].i_acks[p.pkt_id].in_use
                      /\ clients'[s].i_acks[p.pkt_id].in_use) =>
                         StubHeaderType(clients'[s].i_acks[p.pkt_id].packet) =
                             {IF p.qos = AT_LEAST_ONCE THEN "PUBACK" ELSE "PUBREC"}]_vars

\* some packet id of client record cl is free
HasFreeMid(cl) == \E k \in Mids : MidFree(cl, k)

\* C20: the id of every QoS>0 PUBLISH the fan-out stages toward a client
\* was, before the fan-out, in use neither in the client's i_msgs nor in
\* its i_acks; a client with every id in use is staged no PUBLISH and its
\* inflight tables stay as they are.
C20_AssignedMidIsFree ==
    [][PublishReturned =>
          \A s \in Clients :
              /\ \A i \in 1..Len(Appended(s)) :
                     LET p == Appended(s)[i]
                     IN (IsPublish(p) /\ p.qos > AT_MOST_ONCE) =>
                            /\ p.pkt_id \in Mids
                            /\ MidFree(clients[s], p.pkt_id)
              /\ ~HasFreeMid(clients[s]) =>
                     /\ \A i \in 1..Len(Appended(s)) :
                            ~(IsPublish(Appended(s)[i])
                              /\ Appended(s)[i].qos > AT_MOST_ONCE)
                     /\ clients'[s].i_msgs = clients[s].i_msgs
                     /\ clients'[s].i_acks = clients[s].i_acks]_vars

\* the subscriber map of topic n as pairs of client id and granted QoS
SubscriberQos(tp, sr, n) ==
    IF n \in DOMAIN tp
    THEN {<<k, sr[tp[n].subscribers[k]].qos>> : k \in DOMAIN tp[n].subscribers}
    ELSE {}

\* tuple t of a SUBSCRIBE is meant for topic n: n is its normalised filter,
\* or lies under its prefix when the filter ends in "/#"
TupleCovers(t, n) ==
    IF SubscribeIsWildcard(t.topic)
    THEN IsPrefix(SubscribeTopic(t.topic), n)
    ELSE n = SubscribeTopic(t.topic)

\* C21: a SUBSCRIBE installs the client on the normalised filter of each
\* non-wildcard tuple, and changes the subscriber map of no topic other
\* than the normalised filters of its non-wildcard tuples and the topics
\* under the prefixes of its "/#" tuples, whatever the order of the tuples.
C21_PlainTupleInstallsOneTopic ==
    [][last'.op = "SUBSCRIBE" =>
          LET key == clients[last'.c].client_id
              tps == last'.tuples
          IN /\ \A i \in 1..Len(tps) :
                    ~SubscribeIsWildcard(tps[i].topic) =>
                        /\ SubscribeTopic(tps[i].topic) \in DOMAIN topics'
                        /\ key \in DOMAIN topics'[SubscribeTopic(tps[i].topic)].subscribers
             /\ \A n \in DOMAIN topics' :
                    SubscriberQos(topics', subrecs', n) # SubscriberQos(topics, subrecs, n) =>
                        \E i \in 1..Len(tps) : TupleCovers(tps[i], n)]_vars

\* the entries (topic, client id) of the subscriber maps that hold record sid
HoldersOf(sid) ==
    UNION {{<<n, k>> : k \in {j \in DOMAIN topics[n].subscribers :
                                  topics[n].subscribers[j] = sid}} :
           n \in DOMAIN topics}

\* C22: the refs of every subscriber record equals the number of topic
\* subscriber maps that hold it; after a SUBSCRIBE to "a/#" with the
\* topics "a/b/" and "a/c/" that is one record with refs = 2 in both maps.
C22_RefsCountsHolders ==
    \A sid \in DOMAIN subrecs : subrecs[sid].refs = Cardinality(HoldersOf(sid))

\* block b of the pool is referenced by an in-use i_msgs slot or by the
\* offline queue of some client
Referenced(b) ==
    \E c \in Clients :
        \/ \E k \in Mids : clients[c].i_msgs[k].in_use /\ clients[c].i_msgs[k].packet = b
        \/ \E i \in 1..Len(clients[c].outgoing_msgs) : clients[c].outgoing_msgs[i] = b

\* C23: a packet allocated from the pool is released at most once, and is
\* not released while an in-use i_msgs slot or an outgoing_msgs queue still
\* refers to it, whatever PUBACK or PUBCOMP answers an outstanding id; in
\* particular when the PUBLISH was fanned out to several subscribers.
C23_PooledPacketLifetime ==
    [][(/\ last'.op \in {"PUBACK", "PUBCOMP"}
        /\ clients[last'.c].i_msgs[last'.pkt_id].in_use) =>
          \A b \in Blocks :
              /\ pool'[b].frees <= 1
              /\ Referenced(b)' => pool'[b].used]_vars

\* C24: an accepted CONNECT with clean_session false leaves the client's
\* outgoing_msgs empty, so that what it has staged from the queue is not
\* staged again by a later CONNECT; with an empty queue it stages no
\* PUBLISH.
C24_FlushConsumesQueue ==
    [][(last'.op = "CONNECT" /\ last'.rc = "REPLY" /\ ~last'.clean) =>
          /\ clients'[last'.c].outgoing_msgs = << >>
          /\ clients[last'.c].outgoing_msgs = << >> =>
                 \A i \in 1..Len(Appended(last'.c)) :
                     ~IsPublish(Appended(last'.c)[i])]_vars

\* C25: after an UNSUBSCRIBE the client is in the subscriber map of no
\* topic that one of its filters stands for (the normalised filter, or the
\* topics under the prefix of a "/#" filter); the UNSUBSCRIBE creates no
\* topic and stages exactly one UNSUBACK with its packet id.
C25_UnsubscribeRoundTrip ==
    [][last'.op = "UNSUBSCRIBE" =>
          LET key == clients[last'.c].client_id
              fs  == last'.tuples
          IN /\ \A i \in 1..Len(fs) : \A n \in DOMAIN topics' :
                    TupleCovers([topic |-> fs[i]], n) =>
                        key \notin DOMAIN topics'[n].subscribers
             /\ DOMAIN topics' = DOMAIN topics
             /\ Appended(last'.c) = <<mqtt_pack_mono("UNSUBACK", last'.pkt_id)>>]_vars

====
